---------------------------- MODULE Spec2Model ----------------------------
(***************************************************************************)
(* Model of cmd/bb_browser/browser_service.go: the archive export          *)
(* (generateTarball / generateTarballDirectory) reached from               *)
(* handleDirectory and handleTree, and the path resolution of handleTree.  *)
(*                                                                         *)
(* Conventions.                                                            *)
(*  - A digest is [Instance, Hash, SizeBytes]; a partial reference, as     *)
(*    stored in a DirectoryNode or FileNode, is [Hash, SizeBytes].         *)
(*  - An archive path is the sequence of its components: for the node      *)
(*    names of this model (non-empty, no '/', not "." or "..")             *)
(*    path.Join(p, n) appends n to p, and the root path "" is <<>>.        *)
(*  - tar.Header.Linkname is a sequence of strings: the components of the  *)
(*    target path for a hardlink, the one verbatim target string for a     *)
(*    symlink.                                                             *)
(*  - Every call of a collaborator (tar writer, digest derivation,         *)
(*    directory fetch, blob read) is appended to the call's log with its   *)
(*    outcome, so that "what happened after a failure" can be stated.      *)
(***************************************************************************)
EXTENDS Integers, Sequences, FiniteSets, TLC

VARIABLES
    cas,        \* directory blobs by hash: what the storage answers for a hash
    handler,    \* which HTTP handler serves the request: "directory" | "tree" |
                \* "action" | "file"; "concurrent" for two archive requests at once
    req,        \* the request: digest, subdirectory (handleTree), format
    tree,       \* handleTree: the Tree message, its index and the resolution state
    tb,         \* the generateTarball call: position, stack, archive, filesSeen, log
    casTree,    \* the Tree message the storage holds for the request's digest
    response,   \* what the handler has answered so far
    logCall,    \* the getLogInfoFromActionResult call: arguments, position, result
    fileCall,   \* the handleFile call: the blob's reader and the response
    calls,      \* two concurrent generateTarball calls, each like tb
    maps        \* the filesSeen maps of the concurrent calls, by identity

vars == <<cas, casTree, handler, req, tree, tb, response, logCall, fileCall, calls, maps>>

---------------------------------------------------------------------------
(* Bounds of the model. *)

\* Largest number of nodes (directories + symlinks + files) of one Directory.
MaxNodes == 2

\* Largest depth of nested generateTarballDirectory calls that is explored.
MaxDepth == 3

---------------------------------------------------------------------------
(* Values. *)

SeqUpTo(S, n) == UNION {[1..k -> S] : k \in 0..n}

Range(s) == {s[i] : i \in DOMAIN s}

InstanceName == "inst"

\* Hashes under which the storage holds a Directory.
DirHashes == {"D1", "D2"}

NoDigest == [Instance |-> "", Hash |-> "", SizeBytes |-> 0]

EmptyDirectory == [Directories |-> <<>>, Symlinks |-> <<>>, Files |-> <<>>]

NoFile == [Name |-> "", Digest |-> [Hash |-> "", SizeBytes |-> 0], IsExecutable |-> FALSE]

\* tar.Header.Mode values, and the tar type flags.
ModeDirectory == 511
ModeSymlink == 511
ModeExecutable == 511
ModeRegular == 438

TypeDir == "TypeDir"
TypeSymlink == "TypeSymlink"
TypeLink == "TypeLink"
TypeReg == "TypeReg"

\* Node names by position, for the directories served by handleDirectory.
DirectoryNames == <<"a", "b", "c", "d">>
SymlinkNames == <<"s", "t", "u", "v">>
FileNames == <<"f", "g", "h", "i">>

\* A well-formed reference to the directory blob with hash h.
DirRef(h) == [Hash |-> h, SizeBytes |-> 1]

\* References a DirectoryNode may carry: to a stored blob, or malformed
\* (empty hash).
DirectoryRefs == {DirRef(h) : h \in DirHashes} \cup {[Hash |-> "", SizeBytes |-> 1]}

\* References a FileNode may carry: two contents, or malformed (negative size).
FileRefs ==
    {[Hash |-> "X", SizeBytes |-> 1], [Hash |-> "Y", SizeBytes |-> 1],
     [Hash |-> "X", SizeBytes |-> -1]}

FileKinds == [Digest : FileRefs, IsExecutable : BOOLEAN]

SymlinkTargets == {"../z"}

MkDirectory(ds, ss, fs) ==
    [Directories |-> [i \in 1..Len(ds) |-> [Name |-> DirectoryNames[i], Digest |-> ds[i]]],
     Symlinks |-> [i \in 1..Len(ss) |-> [Name |-> SymlinkNames[i], Target |-> ss[i]]],
     Files |-> [i \in 1..Len(fs) |->
                  [Name |-> FileNames[i], Digest |-> fs[i].Digest,
                   IsExecutable |-> fs[i].IsExecutable]]]

\* The Directory messages the storage may hold.
Directories ==
    {MkDirectory(x.ds, x.ss, x.fs) :
        x \in {y \in [ds : SeqUpTo(DirectoryRefs, MaxNodes),
                      ss : SeqUpTo(SymlinkTargets, MaxNodes),
                      fs : SeqUpTo(FileKinds, MaxNodes)] :
                 Len(y.ds) + Len(y.ss) + Len(y.fs) <= MaxNodes}}

---------------------------------------------------------------------------
(* Collaborators at their boundary. *)

\* digest.NewDerivedDigest: the parent's instance name with the partial
\* reference's hash and size; it fails on an empty hash or a negative size.
DerivationFails(partial) == partial.Hash = "" \/ partial.SizeBytes < 0

NewDerivedDigest(parent, partial) ==
    [Instance |-> parent.Instance, Hash |-> partial.Hash, SizeBytes |-> partial.SizeBytes]

\* digest.GetKey(digest.KeyWithoutInstance): hash and size, no instance name.
GetKey(d) == <<d.Hash, d.SizeBytes>>

\* path.Join(directoryPath, name)
Join(directoryPath, name) == Append(directoryPath, name)

---------------------------------------------------------------------------
(* generateTarballDirectory: one stack frame per call in progress.         *)
(* A frame is at one of the statements of the function body:               *)
(*   dirHeader, dirDerive, dirFetch   the i-th DirectoryNode               *)
(*   symlink                          the i-th SymlinkNode                 *)
(*   fileDerive, fileLink, fileReg, fileCopy   the i-th FileNode           *)
(*   return                           the final "return nil"               *)

\* Mutant of Settle: the loop over the files runs before the loop over the
\* symlinks.
SettleFilesFirst(f) ==
    LET f1 == IF f.at = "dirHeader" /\ f.i > Len(f.directory.Directories)
              THEN [f EXCEPT !.at = "fileDerive", !.i = 1] ELSE f
        f2 == IF f1.at = "fileDerive" /\ f1.i > Len(f1.directory.Files)
              THEN [f1 EXCEPT !.at = "symlink", !.i = 1] ELSE f1
    IN  IF f2.at = "symlink" /\ f2.i > Len(f2.directory.Symlinks)
        THEN [f2 EXCEPT !.at = "return"] ELSE f2

\* Skips the loops that have no element left.
Settle(f) ==
    LET f1 == IF f.at = "dirHeader" /\ f.i > Len(f.directory.Directories)
              THEN [f EXCEPT !.at = "symlink", !.i = 1] ELSE f
        f2 == IF f1.at = "symlink" /\ f1.i > Len(f1.directory.Symlinks)
              THEN [f1 EXCEPT !.at = "fileDerive", !.i = 1] ELSE f1
    IN  IF f2.at = "fileDerive" /\ f2.i > Len(f2.directory.Files)
        THEN [f2 EXCEPT !.at = "return"] ELSE f2

\* The frame of a call generateTarballDirectory(.., digest, directory, path, ..)
\* at its first statement.
NewFrame(directoryDigest, directory, directoryPath) ==
    Settle([directoryDigest |-> directoryDigest, directory |-> directory,
            directoryPath |-> directoryPath, at |-> "dirHeader", i |-> 1,
            childDigest |-> NoDigest])

\* The next iteration of the loop the frame is in.
NextNode(f, loop) == Settle([f EXCEPT !.at = loop, !.i = @ + 1, !.childDigest = NoDigest])

Top(t) == t.stack[Len(t.stack)]

SetTop(t, f) == [t EXCEPT !.stack[Len(t.stack)] = f]

\* One call of a collaborator and its outcome, appended to the call's log.
\* name is the archive path of the node the call is about; digest the digest
\* handed to the call; file the FileNode the call is about (NoFile for the
\* other nodes).
Event(op, ok, name, digest, file) ==
    [op |-> op, ok |-> ok, name |-> name, digest |-> digest, file |-> file]

Logged(t, ev) == [t EXCEPT !.log = Append(@, ev)]

Header(typeflag, name, linkname, size, mode) ==
    [Typeflag |-> typeflag, Name |-> name, Linkname |-> linkname, Size |-> size,
     Mode |-> mode, Content |-> ""]

\* tar.Writer.WriteHeader succeeded: the entry is in the archive.
Written(t, hdr, file) ==
    [Logged(t, Event("WriteHeader", TRUE, hdr.Name, NoDigest, file))
        EXCEPT !.archive = Append(@, hdr)]

\* tar.Writer.WriteHeader returned an error.
NotWritten(t, name, file) == Logged(t, Event("WriteHeader", FALSE, name, NoDigest, file))

\* log.Print(err); panic(http.ErrAbortHandler)
AbortHandler(t) == [t EXCEPT !.pc = "aborted", !.stack = <<>>]

\* Mutant of ReturnError: "continue" with the next node of the loop where
\* "return err" stands.
ReturnErrorContinue(t) ==
    LET f == t.stack[Len(t.stack)]
        loop == IF f.at \in {"dirHeader", "dirDerive", "dirFetch"} THEN "dirHeader"
                ELSE IF f.at = "symlink" THEN "symlink" ELSE "fileDerive"
    IN  [t EXCEPT !.stack[Len(t.stack)] = NextNode(f, loop)]

\* Mutant of ReturnError: generateTarball logs the error of the traversal and
\* goes on to close the writers (the panic is missing).
ReturnErrorThenClose(t) == [t EXCEPT !.pc = "tarClose", !.stack = <<>>]

\* "return err" in generateTarballDirectory, through every caller, up to
\* generateTarball, which aborts the handler.
ReturnError(t) == AbortHandler(t)

\* Mutant of ChildKey: the executable bit is left out of the key.
ChildKeyWithoutMode(childDigest, isExecutable) == GetKey(childDigest)

\* childKey: the key without instance name, plus "+x" or "-x".
ChildKey(childDigest, isExecutable) ==
    Append(GetKey(childDigest), IF isExecutable THEN "+x" ELSE "-x")

\* Mutant of WriteDirectoryHeader: the error of WriteHeader is not checked.
WriteDirectoryHeaderUnchecked(t, ok) ==
    LET f == t.stack[Len(t.stack)]
        directoryNode == f.directory.Directories[f.i]
        childPath == Join(f.directoryPath, directoryNode.Name)
        written == IF ok
                   THEN Written(t, Header(TypeDir, childPath, <<>>, 0, ModeDirectory), NoFile)
                   ELSE NotWritten(t, childPath, NoFile)
    IN  [written EXCEPT !.stack[Len(t.stack)] = [f EXCEPT !.at = "dirDerive"]]

\* w.WriteHeader(TypeDir, childPath, 0777) for the i-th DirectoryNode.
WriteDirectoryHeader(t, ok) ==
    LET f == Top(t)
        directoryNode == f.directory.Directories[f.i]
        childPath == Join(f.directoryPath, directoryNode.Name)
    IN  IF ok
        THEN SetTop(Written(t, Header(TypeDir, childPath, <<>>, 0, ModeDirectory), NoFile),
                    [f EXCEPT !.at = "dirDerive"])
        ELSE ReturnError(NotWritten(t, childPath, NoFile))

\* childDigest, err := directoryDigest.NewDerivedDigest(directoryNode.Digest)
DeriveDirectoryDigest(t) ==
    LET f == Top(t)
        directoryNode == f.directory.Directories[f.i]
        childPath == Join(f.directoryPath, directoryNode.Name)
        childDigest == NewDerivedDigest(f.directoryDigest, directoryNode.Digest)
    IN  IF DerivationFails(directoryNode.Digest)
        THEN ReturnError(Logged(t, Event("NewDerivedDigest", FALSE, childPath, NoDigest, NoFile)))
        ELSE SetTop(Logged(t, Event("NewDerivedDigest", TRUE, childPath, childDigest, NoFile)),
                    [f EXCEPT !.at = "dirFetch", !.childDigest = childDigest])

\* Mutant of FetchChildDirectory: a child whose digest is the digest of a
\* directory on the current path is fetched but not entered.
FetchChildDirectoryUnlessOnPath(t, found, childDirectory) ==
    LET f == t.stack[Len(t.stack)]
        directoryNode == f.directory.Directories[f.i]
        childPath == Join(f.directoryPath, directoryNode.Name)
        ev == Event("getDirectory", found, childPath, f.childDigest, NoFile)
        onPath == \E k \in DOMAIN t.stack : t.stack[k].directoryDigest = f.childDigest
    IN  IF found /\ onPath
        THEN [Logged(t, ev) EXCEPT !.stack[Len(t.stack)] = NextNode(f, "dirHeader")]
        ELSE IF found
        THEN [Logged(t, ev) EXCEPT
                !.stack = Append(@, NewFrame(f.childDigest, childDirectory, childPath))]
        ELSE ReturnError(Logged(t, ev))

\* Mutant of FetchChildDirectory: a Directory fetched earlier in the traversal
\* is taken from a cache and no fetch is issued for it.
FetchChildDirectoryCached(t, found, childDirectory) ==
    LET f == t.stack[Len(t.stack)]
        directoryNode == f.directory.Directories[f.i]
        childPath == Join(f.directoryPath, directoryNode.Name)
        ev == Event("getDirectory", found, childPath, f.childDigest, NoFile)
        cached == \E e \in Range(t.log) :
                     e.op = "getDirectory" /\ e.ok /\ e.digest = f.childDigest
        fetched == IF cached THEN t ELSE Logged(t, ev)
    IN  IF found
        THEN [fetched EXCEPT
                !.stack = Append(@, NewFrame(f.childDigest, childDirectory, childPath))]
        ELSE ReturnError(Logged(t, ev))

\* childDirectory, err := getDirectory(ctx, childDigest), then the recursive
\* call for childDirectory at childPath.
FetchChildDirectory(t, found, childDirectory) ==
    LET f == Top(t)
        directoryNode == f.directory.Directories[f.i]
        childPath == Join(f.directoryPath, directoryNode.Name)
        ev == Event("getDirectory", found, childPath, f.childDigest, NoFile)
    IN  IF found
        THEN [Logged(t, ev) EXCEPT
                !.stack = Append(@, NewFrame(f.childDigest, childDirectory, childPath))]
        ELSE ReturnError(Logged(t, ev))

\* w.WriteHeader(TypeSymlink, childPath, symlinkNode.Target, 0777)
WriteSymlinkHeader(t, ok) ==
    LET f == Top(t)
        symlinkNode == f.directory.Symlinks[f.i]
        childPath == Join(f.directoryPath, symlinkNode.Name)
    IN  IF ok
        THEN SetTop(Written(t, Header(TypeSymlink, childPath, <<symlinkNode.Target>>,
                                      0, ModeSymlink), NoFile),
                    NextNode(f, "symlink"))
        ELSE ReturnError(NotWritten(t, childPath, NoFile))

\* childDigest, err := directoryDigest.NewDerivedDigest(fileNode.Digest), the
\* computation of childKey and the lookup filesSeen[childKey].
DeriveFileDigest(t) ==
    LET f == Top(t)
        fileNode == f.directory.Files[f.i]
        childPath == Join(f.directoryPath, fileNode.Name)
        childDigest == NewDerivedDigest(f.directoryDigest, fileNode.Digest)
        childKey == ChildKey(childDigest, fileNode.IsExecutable)
    IN  IF DerivationFails(fileNode.Digest)
        THEN ReturnError(Logged(t, Event("NewDerivedDigest", FALSE, childPath, NoDigest, fileNode)))
        ELSE SetTop(Logged(t, Event("NewDerivedDigest", TRUE, childPath, childDigest, fileNode)),
                    [f EXCEPT !.childDigest = childDigest,
                              !.at = IF childKey \in DOMAIN t.filesSeen
                                     THEN "fileLink" ELSE "fileReg"])

\* w.WriteHeader(TypeLink, childPath, linkPath): the file was returned before.
WriteLinkHeader(t, ok) ==
    LET f == Top(t)
        fileNode == f.directory.Files[f.i]
        childPath == Join(f.directoryPath, fileNode.Name)
        childKey == ChildKey(f.childDigest, fileNode.IsExecutable)
        linkPath == t.filesSeen[childKey]
    IN  IF ok
        THEN SetTop(Written(t, Header(TypeLink, childPath, linkPath, 0, 0), fileNode),
                    NextNode(f, "fileDerive"))
        ELSE ReturnError(NotWritten(t, childPath, fileNode))

\* mode := 0666, or 0777 for an executable
FileMode(fileNode) == IF fileNode.IsExecutable THEN ModeExecutable ELSE ModeRegular

\* w.WriteHeader(TypeReg, childPath, fileNode.Digest.SizeBytes, mode)
WriteRegHeader(t, ok) ==
    LET f == Top(t)
        fileNode == f.directory.Files[f.i]
        childPath == Join(f.directoryPath, fileNode.Name)
    IN  IF ok
        THEN SetTop(Written(t, Header(TypeReg, childPath, <<>>, fileNode.Digest.SizeBytes,
                                      FileMode(fileNode)), fileNode),
                    [f EXCEPT !.at = "fileCopy"])
        ELSE ReturnError(NotWritten(t, childPath, fileNode))

\* Mutant of Remember: the first occurrence is not recorded.
RememberNothing(filesSeen, childKey, childPath) == filesSeen

\* filesSeen[childKey] = childPath
Remember(filesSeen, childKey, childPath) ==
    [k \in DOMAIN filesSeen \cup {childKey} |->
        IF k = childKey THEN childPath ELSE filesSeen[k]]

\* contentAddressableStorageBlobAccess.Get(ctx, childDigest).IntoWriter(w),
\* then filesSeen[childKey] = childPath.
CopyContent(t, ok) ==
    LET f == Top(t)
        fileNode == f.directory.Files[f.i]
        childPath == Join(f.directoryPath, fileNode.Name)
        childKey == ChildKey(f.childDigest, fileNode.IsExecutable)
        ev == Event("IntoWriter", ok, childPath, f.childDigest, fileNode)
    IN  IF ok
        THEN SetTop([Logged(t, ev) EXCEPT
                        !.archive[Len(t.archive)].Content = f.childDigest.Hash,
                        !.filesSeen = Remember(@, childKey, childPath)],
                    NextNode(f, "fileDerive"))
        ELSE ReturnError(Logged(t, ev))

\* Mutant of ReturnNil: the function does not return; it spins in a loop
\* that makes no call.
ReturnNilSpinning(t) == t

\* Mutant of ReturnNil: the caller leaves its loop over the child directories
\* after the first child ("break").
ReturnNilAndBreak(t) ==
    LET rest == SubSeq(t.stack, 1, Len(t.stack) - 1)
    IN  IF rest = <<>>
        THEN [t EXCEPT !.stack = <<>>, !.pc = "tarClose"]
        ELSE [t EXCEPT !.stack =
                [rest EXCEPT ![Len(rest)] =
                    NextNode([rest[Len(rest)] EXCEPT
                                 !.i = Len(rest[Len(rest)].directory.Directories)],
                             "dirHeader")]]

\* "return nil": back in the caller's loop over the child directories, or in
\* generateTarball when the call was the outermost one.
ReturnNil(t) ==
    LET rest == SubSeq(t.stack, 1, Len(t.stack) - 1)
    IN  IF rest = <<>>
        THEN [t EXCEPT !.stack = <<>>, !.pc = "tarClose"]
        ELSE [t EXCEPT !.stack =
                [rest EXCEPT ![Len(rest)] = NextNode(rest[Len(rest)], "dirHeader")]]

---------------------------------------------------------------------------
(* generateTarball *)

IdleTarball ==
    [pc |-> "idle", digest |-> NoDigest, directory |-> EmptyDirectory, fetcher |-> "none",
     stack |-> <<>>, archive |-> <<>>, filesSeen |-> <<>>, log |-> <<>>]

\* The gzip and tar writers and the empty filesSeen map, then the outermost
\* call generateTarballDirectory(ctx, tarWriter, digest, directory, "", ..).
StartTarball(digest, directory, fetcher) ==
    [pc |-> "traverse", digest |-> digest, directory |-> directory, fetcher |-> fetcher,
     stack |-> <<NewFrame(digest, directory, <<>>)>>,
     archive |-> <<>>, filesSeen |-> <<>>, log |-> <<>>]

\* if err := tarWriter.Close(); err != nil { panic(http.ErrAbortHandler) }
CloseTarWriter(t, ok) ==
    LET logged == Logged(t, Event("tarWriter.Close", ok, <<>>, NoDigest, NoFile))
    IN  IF ok THEN [logged EXCEPT !.pc = "gzipClose"] ELSE AbortHandler(logged)

\* if err := gzipWriter.Close(); err != nil { panic(http.ErrAbortHandler) }
CloseGzipWriter(t, ok) ==
    LET logged == Logged(t, Event("gzipWriter.Close", ok, <<>>, NoDigest, NoFile))
    IN  IF ok THEN [logged EXCEPT !.pc = "returned"] ELSE AbortHandler(logged)

---------------------------------------------------------------------------
(* handleTree: the index of the Tree's children and the path resolution. *)

\* Characters of the request's subdirectory, and the names of the
\* DirectoryNodes of a Tree.
PathChars == {"/", "a"}
TreeNames == {"a", "b"}

\* Longest subdirectory string of a request.
MaxPathLen == 3

\* strings.FieldsFunc(s, func(r rune) bool { return r == '/' }): the maximal
\* runs of characters other than '/'.
RECURSIVE FieldsFrom(_, _, _)
FieldsFrom(s, i, field) ==
    IF i > Len(s)
    THEN IF field = "" THEN <<>> ELSE <<field>>
    ELSE IF s[i] = "/"
         THEN (IF field = "" THEN <<>> ELSE <<field>>) \o FieldsFrom(s, i + 1, "")
         ELSE FieldsFrom(s, i + 1, field \o s[i])

\* Mutant of FieldsFunc: strings.Split(s, "/"), which keeps the empty fields.
RECURSIVE SplitFrom(_, _, _)
SplitFrom(s, i, field) ==
    IF i > Len(s) THEN <<field>>
    ELSE IF s[i] = "/" THEN <<field>> \o SplitFrom(s, i + 1, "")
         ELSE SplitFrom(s, i + 1, field \o s[i])

FieldsFuncSplit(s) == SplitFrom(s, 1, "")

FieldsFunc(s) == FieldsFrom(s, 1, "")

\* proto.Marshal(child) written into treeDigest.NewGenerator(), then Sum():
\* the digest of the child's serialized form, in the tree digest's instance.
\* cas is the table of the hash function: the blob with hash h is cas[h].
\* Marshalling a child that GetTree has just unmarshalled and writing it to
\* the in-memory generator do not fail: the two error returns of the loop are
\* not modelled.
SumOfMarshal(treeDigest, child) ==
    LET h == CHOOSE hh \in DOMAIN cas : cas[hh] = child
    IN  NewDerivedDigest(treeDigest, DirRef(h))

\* children[digestGenerator.Sum().GetKey(KeyWithoutInstance)] = child, for
\* every child in order: a later child replaces an earlier one with its key.
ChildrenIndex(treeDigest, treeChildren) ==
    LET key(i) == GetKey(SumOfMarshal(treeDigest, treeChildren[i]))
        last(k) == CHOOSE i \in DOMAIN treeChildren :
                      /\ key(i) = k
                      /\ \A j \in DOMAIN treeChildren : key(j) = k => j <= i
    IN  [k \in {key(i) : i \in DOMAIN treeChildren} |-> treeChildren[last(k)]]

\* Mutant of FindChildNode: without a match, the node scanned last is
\* returned instead of nil.
FindChildNodeOrLast(directory, component) ==
    LET matches == {i \in DOMAIN directory.Directories :
                       directory.Directories[i].Name = component}
    IN  IF matches = {} THEN Len(directory.Directories)
        ELSE CHOOSE i \in matches : \A j \in matches : i <= j

\* The first DirectoryNode of the directory named component, as its index;
\* 0 when there is none (childNode == nil).
FindChildNode(directory, component) ==
    LET matches == {i \in DOMAIN directory.Directories :
                       directory.Directories[i].Name = component}
    IN  IF matches = {} THEN 0
        ELSE CHOOSE i \in matches : \A j \in matches : i <= j

NoPage ==
    [Digest |-> NoDigest, Instance |-> "", Directory |-> EmptyDirectory,
     HasParentDirectory |-> FALSE]

NoResponse == [kind |-> "none", status |-> 0, message |-> "", page |-> NoPage]

\* http.Error(w, message, status)
ErrorResponse(status, message) ==
    [kind |-> "error", status |-> status, message |-> message, page |-> NoPage]

\* templates.ExecuteTemplate(w, .., page)
PageResponse(page) == [kind |-> "page", status |-> 200, message |-> "", page |-> page]

\* The headers generateTarball sets; the body is the archive of tb.
TarballResponse(digest) ==
    [kind |-> "tarball", status |-> 200, message |-> digest.Hash, page |-> NoPage]

IdleTree ==
    [pc |-> "idle", children |-> <<>>, directoryDigest |-> NoDigest,
     treeInfo |-> [Instance |-> "", Directory |-> EmptyDirectory,
                   HasParentDirectory |-> FALSE],
     components |-> <<>>, lookups |-> <<>>]

\* Mutant of StartTree: the subdirectory is split at the slashes after the
\* leading ones are trimmed, which leaves an empty last component for a
\* trailing slash.
StartTreeKeepTrailing(treeDigest, message, subdirectory) ==
    [pc |-> "resolve",
     children |-> ChildrenIndex(treeDigest, message.Children),
     directoryDigest |-> treeDigest,
     treeInfo |-> [Instance |-> treeDigest.Instance, Directory |-> message.Root,
                   HasParentDirectory |-> FALSE],
     components |-> FieldsFunc(subdirectory)
                    \o (IF FieldsFunc(subdirectory) # <<>>
                           /\ subdirectory[Len(subdirectory)] = "/"
                        THEN <<"">> ELSE <<>>),
     lookups |-> <<>>]

\* From GetTree's answer to the start of the loop over the components.
StartTree(treeDigest, message, subdirectory) ==
    [pc |-> "resolve",
     children |-> ChildrenIndex(treeDigest, message.Children),
     directoryDigest |-> treeDigest,
     treeInfo |-> [Instance |-> treeDigest.Instance, Directory |-> message.Root,
                   HasParentDirectory |-> FALSE],
     components |-> FieldsFunc(subdirectory),
     lookups |-> <<>>]

\* Mutant of ResolveOutcome: a child missing from the index is answered like
\* a name that matches no node.
ResolveOutcomeConflated(tr) ==
    LET component == Head(tr.components)
        n == FindChildNode(tr.treeInfo.Directory, component)
        childNode == tr.treeInfo.Directory.Directories[n]
        derived == NewDerivedDigest(tr.directoryDigest, childNode.Digest)
    IN  IF n = 0 THEN ErrorResponse(404, "Subdirectory in tree not found")
        ELSE IF DerivationFails(childNode.Digest)
             THEN ErrorResponse(400, "NewDerivedDigest: err.Error()")
        ELSE IF GetKey(derived) \notin DOMAIN tr.children
             THEN ErrorResponse(404, "Subdirectory in tree not found")
        ELSE [kind |-> "descend", status |-> 0, message |-> "", page |-> NoPage]

\* One iteration of the loop over the components: the outcome is "descend",
\* or the error response that ends the handler.
ResolveOutcome(tr) ==
    LET component == Head(tr.components)
        n == FindChildNode(tr.treeInfo.Directory, component)
        childNode == tr.treeInfo.Directory.Directories[n]
        derived == NewDerivedDigest(tr.directoryDigest, childNode.Digest)
    IN  IF n = 0 THEN ErrorResponse(404, "Subdirectory in tree not found")
        ELSE IF DerivationFails(childNode.Digest)
             THEN ErrorResponse(400, "NewDerivedDigest: err.Error()")
        ELSE IF GetKey(derived) \notin DOMAIN tr.children
             THEN ErrorResponse(400, "Failed to find child node in tree")
        ELSE [kind |-> "descend", status |-> 0, message |-> "", page |-> NoPage]

\* Mutant of ResolveComponent: "directoryDigest, err :=" declares a new
\* variable in the loop body, and the handler's directoryDigest stays the
\* tree's digest.
ResolveComponentShadowed(tr) ==
    LET component == Head(tr.components)
        n == FindChildNode(tr.treeInfo.Directory, component)
        childNode == tr.treeInfo.Directory.Directories[n]
        derived == NewDerivedDigest(tr.directoryDigest, childNode.Digest)
        outcome == ResolveOutcome(tr)
    IN  IF n = 0 THEN [tr EXCEPT !.pc = "done"]
        ELSE IF DerivationFails(childNode.Digest) THEN [tr EXCEPT !.pc = "done"]
        ELSE IF outcome.kind = "error"
             THEN [tr EXCEPT !.pc = "done", !.lookups = Append(@, GetKey(derived))]
        ELSE [tr EXCEPT !.lookups = Append(@, GetKey(derived)),
                        !.treeInfo.HasParentDirectory = TRUE,
                        !.treeInfo.Directory = tr.children[GetKey(derived)],
                        !.components = Tail(@)]

ResolveComponent(tr) ==
    LET component == Head(tr.components)
        n == FindChildNode(tr.treeInfo.Directory, component)
        childNode == tr.treeInfo.Directory.Directories[n]
        derived == NewDerivedDigest(tr.directoryDigest, childNode.Digest)
        outcome == ResolveOutcome(tr)
    IN  IF n = 0 THEN [tr EXCEPT !.pc = "done"]
        ELSE IF DerivationFails(childNode.Digest) THEN [tr EXCEPT !.pc = "done"]
        ELSE IF outcome.kind = "error"
             THEN [tr EXCEPT !.pc = "done", !.directoryDigest = derived,
                             !.lookups = Append(@, GetKey(derived))]
        ELSE [tr EXCEPT !.directoryDigest = derived,
                        !.lookups = Append(@, GetKey(derived)),
                        !.treeInfo.HasParentDirectory = TRUE,
                        !.treeInfo.Directory = tr.children[GetKey(derived)],
                        !.components = Tail(@)]

\* The loop over the components, run to its end: the error response that
\* ends the handler, or the digest and Directory the handler goes on with.
RECURSIVE ResolveFrom(_)
ResolveFrom(tr) ==
    IF tr.components = <<>>
    THEN [error |-> NoResponse, digest |-> tr.directoryDigest,
          directory |-> tr.treeInfo.Directory]
    ELSE IF ResolveOutcome(tr).kind = "error"
         THEN [error |-> ResolveOutcome(tr), digest |-> NoDigest,
               directory |-> EmptyDirectory]
         ELSE ResolveFrom(ResolveComponent(tr))

---------------------------------------------------------------------------
(* getLogInfoFromActionResult and getLogInfoForDigest *)

\* maximumLogSizeBytes := 100000
maximumLogSizeBytes == 100000

\* digest.NewDigestFromPartialDigest(instance, partial): the digest of the
\* instance with the partial digest's hash and size; it fails as
\* NewDerivedDigest does.
NewDigestFromPartialDigest(instance, partial) ==
    [Instance |-> instance, Hash |-> partial.Hash, SizeBytes |-> partial.SizeBytes]

\* terminal.Render(data), as template.HTML
Render(data) == <<"html", data>>

\* &logInfo{Name: .., Digest: .., TooLarge: .., NotFound: .., HTML: ..}
LogInfo(name, digest, tooLarge, notFound, html) ==
    [Name |-> name, Digest |-> digest, TooLarge |-> tooLarge, NotFound |-> notFound,
     HTML |-> html]

\* A call's arguments (logDigest and logInfo are pointers: <<>> is nil), the
\* digest handed to getLogInfoForDigest, the reads issued to the blob
\* storage, and the returned (*logInfo, error).
IdleLog ==
    [pc |-> "idle", name |-> "", instance |-> "", logDigest |-> <<>>, rawLogBody |-> "",
     digest |-> NoDigest, reads |-> <<>>, logInfo |-> <<>>, err |-> FALSE]

\* getLogInfoFromActionResult, up to its return or its call of
\* getLogInfoForDigest.
GetLogInfoFromActionResult(c) ==
    LET present == c.logDigest # <<>>
        blobDigest == IF present
                      THEN NewDigestFromPartialDigest(c.instance, c.logDigest[1])
                      ELSE NoDigest
    IN  IF present /\ DerivationFails(c.logDigest[1])
        THEN [c EXCEPT !.pc = "done", !.err = TRUE]
        ELSE IF c.rawLogBody # ""
        THEN [c EXCEPT !.pc = "done",
                       !.logInfo = <<LogInfo(c.name, blobDigest, FALSE, FALSE,
                                             Render(c.rawLogBody))>>]
        ELSE IF present
        THEN [c EXCEPT !.pc = "forDigest", !.digest = blobDigest]
        ELSE [c EXCEPT !.pc = "done"]

\* Mutant of GetLogInfoForDigest: the test for size zero is missing.
GetLogInfoForDigestAlwaysRead(c) ==
    IF c.digest.SizeBytes > maximumLogSizeBytes
    THEN [c EXCEPT !.pc = "done",
                   !.logInfo = <<LogInfo(c.name, c.digest, TRUE, FALSE, "")>>]
    ELSE [c EXCEPT !.pc = "read"]

\* getLogInfoForDigest, up to its return or its read of the blob.
GetLogInfoForDigest(c) ==
    IF c.digest.SizeBytes = 0
    THEN [c EXCEPT !.pc = "done"]
    ELSE IF c.digest.SizeBytes > maximumLogSizeBytes
    THEN [c EXCEPT !.pc = "done",
                   !.logInfo = <<LogInfo(c.name, c.digest, TRUE, FALSE, "")>>]
    ELSE [c EXCEPT !.pc = "read"]

\* contentAddressableStorageBlobAccess.Get(ctx, digest).ToByteSlice(..) and
\* the three ways on from it: the data, codes.NotFound, another error.
ReadLog(c, outcome, data) ==
    LET read == [c EXCEPT !.pc = "done", !.reads = Append(@, c.digest)]
    IN  IF outcome = "ok"
        THEN [read EXCEPT !.logInfo = <<LogInfo(c.name, c.digest, FALSE, FALSE, Render(data))>>]
        ELSE IF outcome = "NotFound"
        THEN [read EXCEPT !.logInfo = <<LogInfo(c.name, c.digest, FALSE, TRUE, "")>>]
        ELSE [read EXCEPT !.err = TRUE]

---------------------------------------------------------------------------
(* handleFile *)

\* Most chunks io.Copy moves after the first read.
MaxChunks == 2

\* What one Read of the blob's reader may deliver: no byte, text, or bytes
\* that are not valid UTF-8.
Chunks == {"", "text", "binary"}

\* What one Read returns beside the bytes: nil, io.EOF, or another error.
ReadErrors == {"nil", "EOF", "error"}

\* utf8.ValidString(string(first[:])): the bytes read, padded with zeroes.
ValidString(first) == first # "binary"

\* A call of a collaborator by handleFile, appended to the call's log.
FileEvent(op, name, value) == [op |-> op, name |-> name, value |-> value]

\* The reader of the blob (opened, closed), the first chunk and the error
\* read with it, and the calls made on the reader and the ResponseWriter.
IdleFile ==
    [pc |-> "idle", size |-> 0, opened |-> FALSE, closed |-> FALSE, first |-> "",
     firstErr |-> "nil", copied |-> 0, log |-> <<>>]

FileLogged(c, ev) == [c EXCEPT !.log = Append(@, ev)]

\* getDigestFromRequest, then
\* r := contentAddressableStorageBlobAccess.Get(ctx, digest).ToReader(); defer r.Close()
OpenFile(c, digestOk) ==
    IF ~digestOk
    THEN [FileLogged(c, FileEvent("http.Error", "status", "400")) EXCEPT !.pc = "done"]
    ELSE [FileLogged(c, FileEvent("ToReader", "", "")) EXCEPT
             !.pc = "firstRead", !.opened = TRUE]

\* Mutant of FirstRead: the error of the first Read is not looked at.
FirstReadUnchecked(c, data, err) ==
    [FileLogged(c, FileEvent("Read", data, err)) EXCEPT
        !.first = data, !.firstErr = err, !.pc = "respond"]

\* n, err := r.Read(first[:]), and the http.Error for an error other than
\* io.EOF.
FirstRead(c, data, err) ==
    LET read == [FileLogged(c, FileEvent("Read", data, err)) EXCEPT
                    !.first = data, !.firstErr = err]
    IN  IF err = "error"
        THEN [FileLogged(read, FileEvent("http.Error", "status", "400")) EXCEPT !.pc = "close"]
        ELSE [read EXCEPT !.pc = "respond"]

\* The two headers and w.Write(first[:n]).
RespondFile(c) ==
    LET contentType == IF ValidString(c.first) THEN "text/plain; charset=utf-8"
                       ELSE "application/octet-stream"
        l == FileLogged(c, FileEvent("Header.Set", "Content-Length", c.size))
        t == FileLogged(l, FileEvent("Header.Set", "Content-Type", contentType))
    IN  [FileLogged(t, FileEvent("Write", c.first, "")) EXCEPT !.pc = "copy"]

\* io.Copy(w, r), one round: a Read, and the Write of what it delivered; the
\* copy ends at io.EOF and at the first error, which is dropped.
CopyFile(c, data, err, writeOk) ==
    LET read == FileLogged(c, FileEvent("Read", data, err))
        written == IF data # "" THEN FileLogged(read, FileEvent("Write", data, "")) ELSE read
    IN  IF err # "nil" THEN [written EXCEPT !.pc = "close"]
        ELSE IF ~writeOk THEN [written EXCEPT !.pc = "close"]
        ELSE [written EXCEPT !.copied = @ + 1]

\* The deferred r.Close().
CloseFile(c) ==
    [FileLogged(c, FileEvent("Close", "", "")) EXCEPT !.pc = "done", !.closed = TRUE]

---------------------------------------------------------------------------
(* The requests and the storage contents explored. *)

DirectoryDigest == [Instance |-> InstanceName, Hash |-> "D1", SizeBytes |-> 1]

TreeDigest == [Instance |-> InstanceName, Hash |-> "T", SizeBytes |-> 1]

NoTree == [Root |-> EmptyDirectory, Children |-> <<>>]

TreeDirectoryNodes == [Name : TreeNames, Digest : DirectoryRefs]

\* Roots of a Tree: up to MaxNodes DirectoryNodes, names repeated or not.
TreeRoots ==
    {[Directories |-> ds, Symlinks |-> <<>>, Files |-> <<>>] :
        ds \in SeqUpTo(TreeDirectoryNodes, MaxNodes)}

\* Inner directories of a Tree: at most one DirectoryNode.
TreeInner ==
    {[Directories |-> ds, Symlinks |-> <<>>, Files |-> <<>>] :
        ds \in SeqUpTo(TreeDirectoryNodes, 1)}

\* A leaf directory of a Tree: a symlink and a file.
TreeLeaf ==
    MkDirectory(<<>>, <<"../z">>,
                <<[Digest |-> [Hash |-> "X", SizeBytes |-> 1], IsExecutable |-> FALSE]>>)

\* The children lists of a Tree: directories of the table, none twice, in
\* any order; a directory left out is one the Tree lacks.
ChildLists(table) ==
    {c \in SeqUpTo(Range(table), Cardinality(DOMAIN table)) :
        \A i, j \in DOMAIN c : c[i] = c[j] => i = j}

InitCommon ==
    /\ tree = IdleTree
    /\ tb = IdleTarball
    /\ response = NoResponse

\* No call of the other handlers is in progress.
InitOthers ==
    /\ logCall = IdleLog
    /\ fileCall = IdleFile
    /\ calls = <<>>
    /\ maps = <<>>

\* GET of a directory: the storage holds any Directory under D1 and D2.
InitDirectory ==
    /\ handler = "directory"
    /\ cas \in [DirHashes -> Directories]
    /\ casTree = NoTree
    /\ req = [digest |-> DirectoryDigest, subdirectory |-> <<>>]
    /\ InitCommon
    /\ InitOthers

\* GET of a tree: the storage holds a Tree under the request's digest.
InitTree ==
    /\ handler = "tree"
    /\ cas \in {c \in [DirHashes -> TreeInner \cup {TreeLeaf}] :
                  c["D1"] \in TreeInner /\ c["D2"] = TreeLeaf}
    /\ casTree \in [Root : TreeRoots, Children : ChildLists(cas)]
    /\ req \in [digest : {TreeDigest}, subdirectory : SeqUpTo(PathChars, MaxPathLen)]
    /\ InitCommon
    /\ InitOthers

\* Sizes a log's digest may record.
LogSizes == {-1, 0, 1, maximumLogSizeBytes, maximumLogSizeBytes + 1}

\* Log references of an ActionResult: none, or a digest that may be malformed.
LogDigests == {<<>>} \cup {<<d>> : d \in [Hash : {"", "L"}, SizeBytes : LogSizes]}

\* Resolution of the logs of an ActionResult: any reference, with or without
\* an inline body.
InitAction ==
    /\ handler = "action"
    /\ cas = [h \in DirHashes |-> EmptyDirectory]
    /\ casTree = NoTree
    /\ req = [digest |-> NoDigest, subdirectory |-> <<>>]
    /\ InitCommon
    /\ logCall \in {[IdleLog EXCEPT !.name = n, !.instance = InstanceName,
                                    !.logDigest = d, !.rawLogBody = r] :
                      n \in {"Standard output", "Standard error"},
                      d \in LogDigests, r \in {"", "raw"}}
    /\ fileCall = IdleFile
    /\ calls = <<>>
    /\ maps = <<>>

\* GET of a file: a blob of any of the sizes.
InitFile ==
    /\ handler = "file"
    /\ cas = [h \in DirHashes |-> EmptyDirectory]
    /\ casTree = NoTree
    /\ req = [digest |-> NoDigest, subdirectory |-> <<>>]
    /\ InitCommon
    /\ logCall = IdleLog
    /\ fileCall \in {[IdleFile EXCEPT !.size = n] : n \in 0..MaxChunks}
    /\ calls = <<>>
    /\ maps = <<>>

Init == InitDirectory \/ InitTree \/ InitAction \/ InitFile

---------------------------------------------------------------------------
(* Actions. *)

\* The storage's answer for a directory digest.
CasHasDirectory(d) == d.Hash \in DOMAIN cas /\ d.SizeBytes = DirRef(d.Hash).SizeBytes

\* handleDirectory
HandleDirectory ==
    /\ handler = "directory" /\ response.kind = "none"
    /\ \E backendOk \in BOOLEAN, format \in {"tar", "html"} :
          IF ~(backendOk /\ CasHasDirectory(req.digest))
          THEN /\ response' = ErrorResponse(400, "GetDirectory: err.Error()")
               /\ UNCHANGED tb
          ELSE IF format = "tar"
          THEN /\ tb' = StartTarball(req.digest, cas[req.digest.Hash], "remote")
               /\ response' = TarballResponse(req.digest)
          ELSE /\ response' =
                    PageResponse([NoPage EXCEPT !.Digest = req.digest,
                                                !.Directory = cas[req.digest.Hash]])
               /\ UNCHANGED tb
    /\ UNCHANGED <<cas, casTree, handler, req, tree, logCall, fileCall, calls, maps>>

\* handleTree, up to the loop over the components.
HandleTreeStart ==
    /\ handler = "tree" /\ response.kind = "none" /\ tree.pc = "idle"
    /\ \E backendOk \in BOOLEAN :
          IF backendOk
          THEN /\ tree' = StartTree(req.digest, casTree, req.subdirectory)
               /\ UNCHANGED response
          ELSE /\ tree' = [tree EXCEPT !.pc = "done"]
               /\ response' = ErrorResponse(400, "GetTree: err.Error()")
    /\ UNCHANGED <<cas, casTree, handler, req, tb, logCall, fileCall, calls, maps>>

\* handleTree, one iteration of the loop over the components.
HandleTreeComponent ==
    /\ tree.pc = "resolve" /\ tree.components # <<>>
    /\ tree' = ResolveComponent(tree)
    /\ response' = IF ResolveOutcome(tree).kind = "error"
                   THEN ResolveOutcome(tree) ELSE response
    /\ UNCHANGED <<cas, casTree, handler, req, tb, logCall, fileCall, calls, maps>>

\* handleTree, after the loop: the archive or the page.
HandleTreeRespond ==
    /\ tree.pc = "resolve" /\ tree.components = <<>>
    /\ tree' = [tree EXCEPT !.pc = "done"]
    /\ \E format \in {"tar", "html"} :
          IF format = "tar"
          THEN /\ tb' = StartTarball(tree.directoryDigest, tree.treeInfo.Directory, "tree")
               /\ response' = TarballResponse(tree.directoryDigest)
          ELSE /\ response' =
                    PageResponse([NoPage EXCEPT
                        !.Instance = tree.treeInfo.Instance,
                        !.Directory = tree.treeInfo.Directory,
                        !.HasParentDirectory = tree.treeInfo.HasParentDirectory])
               /\ UNCHANGED tb
    /\ UNCHANGED <<cas, casTree, handler, req, logCall, fileCall, calls, maps>>

At(label) == tb.pc = "traverse" /\ Top(tb).at = label

Rest == <<cas, casTree, handler, req, tree, response, logCall, fileCall, calls, maps>>

EmitDirectoryHeader ==
    /\ At("dirHeader")
    /\ \E ok \in BOOLEAN : tb' = WriteDirectoryHeader(tb, ok)
    /\ UNCHANGED Rest

DeriveDirectory ==
    /\ At("dirDerive")
    /\ tb' = DeriveDirectoryDigest(tb)
    /\ UNCHANGED Rest

\* getDirectory is contentAddressableStorage.GetDirectory (handleDirectory)
\* or the lookup in the index of the Tree's children (handleTree).
GetDirectory ==
    /\ At("dirFetch")
    /\ LET childDigest == Top(tb).childDigest
       IN  IF tb.fetcher = "remote"
           THEN \E backendOk \in BOOLEAN :
                   LET found == backendOk /\ CasHasDirectory(childDigest)
                   IN  /\ found => Len(tb.stack) < MaxDepth
                       /\ tb' = FetchChildDirectory(tb, found,
                                    IF found THEN cas[childDigest.Hash] ELSE EmptyDirectory)
           ELSE LET found == GetKey(childDigest) \in DOMAIN tree.children
                IN  /\ found => Len(tb.stack) < MaxDepth
                    /\ tb' = FetchChildDirectory(tb, found,
                                 IF found THEN tree.children[GetKey(childDigest)]
                                 ELSE EmptyDirectory)
    /\ UNCHANGED Rest

EmitSymlink ==
    /\ At("symlink")
    /\ \E ok \in BOOLEAN : tb' = WriteSymlinkHeader(tb, ok)
    /\ UNCHANGED Rest

DeriveFile ==
    /\ At("fileDerive")
    /\ tb' = DeriveFileDigest(tb)
    /\ UNCHANGED Rest

EmitHardlink ==
    /\ At("fileLink")
    /\ \E ok \in BOOLEAN : tb' = WriteLinkHeader(tb, ok)
    /\ UNCHANGED Rest

EmitRegularHeader ==
    /\ At("fileReg")
    /\ \E ok \in BOOLEAN : tb' = WriteRegHeader(tb, ok)
    /\ UNCHANGED Rest

EmitContent ==
    /\ At("fileCopy")
    /\ \E ok \in BOOLEAN : tb' = CopyContent(tb, ok)
    /\ UNCHANGED Rest

ReturnFromDirectory ==
    /\ At("return")
    /\ tb' = ReturnNil(tb)
    /\ UNCHANGED Rest

CloseTar ==
    /\ tb.pc = "tarClose"
    /\ \E ok \in BOOLEAN : tb' = CloseTarWriter(tb, ok)
    /\ UNCHANGED Rest

CloseGzip ==
    /\ tb.pc = "gzipClose"
    /\ \E ok \in BOOLEAN : tb' = CloseGzipWriter(tb, ok)
    /\ UNCHANGED Rest

LogRest == <<cas, casTree, handler, req, tree, tb, response, fileCall, calls, maps>>

LogFromActionResult ==
    /\ handler = "action" /\ logCall.pc = "idle"
    /\ logCall' = GetLogInfoFromActionResult(logCall)
    /\ UNCHANGED LogRest

LogForDigest ==
    /\ logCall.pc = "forDigest"
    /\ logCall' = GetLogInfoForDigest(logCall)
    /\ UNCHANGED LogRest

LogRead ==
    /\ logCall.pc = "read"
    /\ \E outcome \in {"ok", "NotFound", "error"} :
          logCall' = ReadLog(logCall, outcome, "blob")
    /\ UNCHANGED LogRest

FileRest == <<cas, casTree, handler, req, tree, tb, response, logCall, calls, maps>>

FileOpen ==
    /\ handler = "file" /\ fileCall.pc = "idle"
    /\ \E digestOk \in BOOLEAN : fileCall' = OpenFile(fileCall, digestOk)
    /\ UNCHANGED FileRest

FileFirstRead ==
    /\ fileCall.pc = "firstRead"
    /\ \E data \in Chunks, err \in ReadErrors : fileCall' = FirstRead(fileCall, data, err)
    /\ UNCHANGED FileRest

FileRespond ==
    /\ fileCall.pc = "respond"
    /\ fileCall' = RespondFile(fileCall)
    /\ UNCHANGED FileRest

FileCopy ==
    /\ fileCall.pc = "copy"
    /\ \E data \in Chunks, err \in ReadErrors, writeOk \in BOOLEAN :
          /\ (err = "nil" /\ writeOk) => fileCall.copied < MaxChunks
          /\ fileCall' = CopyFile(fileCall, data, err, writeOk)
    /\ UNCHANGED FileRest

FileClose ==
    /\ fileCall.pc = "close"
    /\ fileCall' = CloseFile(fileCall)
    /\ UNCHANGED FileRest

Next ==
    \/ HandleDirectory
    \/ HandleTreeStart
    \/ HandleTreeComponent
    \/ HandleTreeRespond
    \/ EmitDirectoryHeader
    \/ DeriveDirectory
    \/ GetDirectory
    \/ EmitSymlink
    \/ DeriveFile
    \/ EmitHardlink
    \/ EmitRegularHeader
    \/ EmitContent
    \/ ReturnFromDirectory
    \/ CloseTar
    \/ CloseGzip
    \/ LogFromActionResult
    \/ LogForDigest
    \/ LogRead
    \/ FileOpen
    \/ FileFirstRead
    \/ FileRespond
    \/ FileCopy
    \/ FileClose

Spec == Init /\ [][Next]_vars

---------------------------------------------------------------------------
(* Two generateTarball calls at once, as the HTTP server runs a handler    *)
(* per request. Each call is a record like tb; its filesSeen map is a Go   *)
(* map, a reference, kept in maps under its identity.                      *)

\* The calls a generateTarball call in state t may make next, over the
\* storage: each result is the call after one of them.
TarballSteps(t) ==
    IF t.pc = "tarClose" THEN {CloseTarWriter(t, ok) : ok \in BOOLEAN}
    ELSE IF t.pc = "gzipClose" THEN {CloseGzipWriter(t, ok) : ok \in BOOLEAN}
    ELSE IF t.pc # "traverse" THEN {}
    ELSE LET at == Top(t).at
             childDigest == Top(t).childDigest
         IN  IF at = "dirHeader" THEN {WriteDirectoryHeader(t, ok) : ok \in BOOLEAN}
             ELSE IF at = "dirDerive" THEN {DeriveDirectoryDigest(t)}
             ELSE IF at = "dirFetch"
             THEN {FetchChildDirectory(t, found,
                                       IF found THEN cas[childDigest.Hash] ELSE EmptyDirectory) :
                      found \in {b \in BOOLEAN :
                                    b => CasHasDirectory(childDigest) /\ Len(t.stack) < MaxDepth}}
             ELSE IF at = "symlink" THEN {WriteSymlinkHeader(t, ok) : ok \in BOOLEAN}
             ELSE IF at = "fileDerive" THEN {DeriveFileDigest(t)}
             ELSE IF at = "fileLink" THEN {WriteLinkHeader(t, ok) : ok \in BOOLEAN}
             ELSE IF at = "fileReg" THEN {WriteRegHeader(t, ok) : ok \in BOOLEAN}
             ELSE IF at = "fileCopy" THEN {CopyContent(t, ok) : ok \in BOOLEAN}
             ELSE {ReturnNil(t)}

\* The requests served at once.
Callers == {1, 2}

\* Mutant of FilesSeenMap: the map is a field of the service, made once and
\* used by every call.
FilesSeenMapOfService(c) == 1

\* filesSeen := map[string]string{}: the map of call c is one made by that
\* call.
FilesSeenMap(c) == c

\* Directories of the storage for the concurrent requests: well-formed
\* references only, no symlinks; D1 may refer to D2, which holds files only.
ConcurrentDirectories ==
    {d \in Directories :
        /\ d.Symlinks = <<>>
        /\ \A i \in DOMAIN d.Directories : d.Directories[i].Digest = DirRef("D2")
        /\ \A i \in DOMAIN d.Files : d.Files[i].Digest.SizeBytes >= 0}

InitConcurrent ==
    /\ handler = "concurrent"
    /\ cas \in {c \in [DirHashes -> ConcurrentDirectories] : c["D2"].Directories = <<>>}
    /\ casTree = NoTree
    /\ req = [digest |-> DirectoryDigest, subdirectory |-> <<>>]
    /\ InitCommon
    /\ logCall = IdleLog
    /\ fileCall = IdleFile
    /\ calls = [c \in Callers |-> IdleTarball]
    /\ maps = <<>>

ConcurrentRest == <<cas, casTree, handler, req, tree, tb, response, logCall, fileCall>>

\* handleDirectory of call c fetched the Directory; generateTarball makes the
\* call's writers and its filesSeen map and starts the traversal.
StartCall(c) ==
    /\ handler = "concurrent" /\ calls[c].pc = "idle"
    /\ calls' = [calls EXCEPT ![c] = StartTarball(req.digest, cas[req.digest.Hash], "remote")]
    /\ maps' = IF FilesSeenMap(c) \in DOMAIN maps THEN maps
               ELSE [m \in DOMAIN maps \cup {FilesSeenMap(c)} |->
                        IF m = FilesSeenMap(c) THEN <<>> ELSE maps[m]]
    /\ UNCHANGED ConcurrentRest

\* Call c makes its next call, reading and writing its filesSeen map.
StepCall(c) ==
    /\ handler = "concurrent"
    /\ calls[c].pc \notin {"idle", "returned", "aborted"}
    /\ \E u \in TarballSteps([calls[c] EXCEPT !.filesSeen = maps[FilesSeenMap(c)]]) :
          /\ calls' = [calls EXCEPT ![c] = u]
          /\ maps' = [maps EXCEPT ![FilesSeenMap(c)] = u.filesSeen]
    /\ UNCHANGED ConcurrentRest

ConcurrentNext == \E c \in Callers : StartCall(c) \/ StepCall(c)

ConcurrentSpec == InitConcurrent /\ [][ConcurrentNext]_vars

---------------------------------------------------------------------------
(* One archive export of handleDirectory, run to its end: every call the   *)
(* handler makes returns, so a handler that can take a step takes one.     *)

ArchiveNext ==
    \/ HandleDirectory
    \/ EmitDirectoryHeader
    \/ DeriveDirectory
    \/ GetDirectory
    \/ EmitSymlink
    \/ DeriveFile
    \/ EmitHardlink
    \/ EmitRegularHeader
    \/ EmitContent
    \/ ReturnFromDirectory
    \/ CloseTar
    \/ CloseGzip

FairArchiveSpec == InitDirectory /\ [][ArchiveNext]_vars /\ WF_vars(ArchiveNext)

---------------------------------------------------------------------------
(* Properties of the archive export. *)

\* The successful WriteHeader calls, in order: the i-th one wrote archive[i].
HeaderCalls == SelectSeq(tb.log, LAMBDA e : e.op = "WriteHeader" /\ e.ok)

\* The FileNode archive[i] was written for (NoFile for another node).
FileOf(i) == HeaderCalls[i].file

IsFileEntry(i) == FileOf(i) # NoFile

\* The dedup key of a FileNode: content hash, size and executable bit.
DedupKeyOf(fileNode) ==
    <<fileNode.Digest.Hash, fileNode.Digest.SizeBytes, fileNode.IsExecutable>>

SameContent(i, j) == FileOf(i).Digest = FileOf(j).Digest

Min(S) == CHOOSE x \in S : \A y \in S : x <= y

ArchiveAligned == Len(HeaderCalls) = Len(tb.archive)

\* C1: in one archive generation the first FileNode with a dedup key is a
\* regular-file entry, every later FileNode with that key is a hardlink entry
\* whose target is the path of that regular-file entry, and a completed
\* archive holds exactly one regular-file entry per key.
C1_FirstRegularLaterHardlinks ==
    /\ ArchiveAligned
    /\ \A i \in DOMAIN tb.archive :
          IsFileEntry(i) =>
             LET earlier == {j \in 1..(i - 1) :
                                IsFileEntry(j) /\ DedupKeyOf(FileOf(j)) = DedupKeyOf(FileOf(i))}
             IN  IF earlier = {}
                 THEN tb.archive[i].Typeflag = TypeReg
                 ELSE /\ tb.archive[i].Typeflag = TypeLink
                      /\ tb.archive[Min(earlier)].Typeflag = TypeReg
                      /\ tb.archive[i].Linkname = tb.archive[Min(earlier)].Name
    /\ tb.pc = "returned" =>
          \A i \in DOMAIN tb.archive :
             IsFileEntry(i) =>
                Cardinality({j \in DOMAIN tb.archive :
                                /\ IsFileEntry(j)
                                /\ DedupKeyOf(FileOf(j)) = DedupKeyOf(FileOf(i))
                                /\ tb.archive[j].Typeflag = TypeReg}) = 1

\* C1 witness: a completed archive with a hardlink to a regular file of
\* another directory and a hardlink to one of the same directory.
C1_Witness ==
    /\ tb.pc = "returned"
    /\ \E i, j \in DOMAIN tb.archive :
          /\ tb.archive[i].Typeflag = TypeLink /\ tb.archive[j].Typeflag = TypeLink
          /\ Len(tb.archive[i].Linkname) # Len(tb.archive[i].Name)
          /\ Len(tb.archive[j].Linkname) = Len(tb.archive[j].Name)

\* archive[i] is a hardlink to the regular-file entry archive[j].
HardlinkTo(i, j) ==
    /\ j < i
    /\ tb.archive[i].Typeflag = TypeLink
    /\ tb.archive[j].Typeflag = TypeReg
    /\ tb.archive[i].Linkname = tb.archive[j].Name

DifferOnlyInMode(i, j) ==
    /\ IsFileEntry(i) /\ IsFileEntry(j)
    /\ SameContent(i, j)
    /\ FileOf(i).IsExecutable # FileOf(j).IsExecutable

\* C2 as stated: of two FileNodes with the same content digest and different
\* executable bits each is a regular-file entry of its own, and neither is a
\* hardlink to the other.
C2_AsStated ==
    \A i, j \in DOMAIN tb.archive :
       DifferOnlyInMode(i, j) =>
          /\ tb.archive[i].Typeflag = TypeReg
          /\ tb.archive[j].Typeflag = TypeReg
          /\ ~HardlinkTo(i, j) /\ ~HardlinkTo(j, i)

\* C2 amended: of two FileNodes with the same content digest and different
\* executable bits neither is a hardlink to the other, and each is a
\* regular-file entry (carrying the content once it is copied) unless an
\* earlier FileNode with the same digest and the same executable bit was
\* written, of which it is then a hardlink.
C2_NeverDeduplicatedAcrossModes ==
    \A i, j \in DOMAIN tb.archive :
       DifferOnlyInMode(i, j) =>
          /\ ~HardlinkTo(i, j) /\ ~HardlinkTo(j, i)
          /\ \/ /\ tb.archive[i].Typeflag = TypeReg
                /\ tb.archive[i].Mode = (IF FileOf(i).IsExecutable THEN 511 ELSE 438)
                /\ tb.archive[i].Content \in {"", FileOf(i).Digest.Hash}
                /\ tb.pc = "returned" => tb.archive[i].Content = FileOf(i).Digest.Hash
             \/ \E k \in 1..(i - 1) :
                   /\ IsFileEntry(k)
                   /\ DedupKeyOf(FileOf(k)) = DedupKeyOf(FileOf(i))
                   /\ HardlinkTo(i, k)

\* C2 witness: a completed archive with two regular-file entries of the same
\* content digest, one executable and one not.
C2_Witness ==
    /\ tb.pc = "returned"
    /\ \E i, j \in DOMAIN tb.archive :
          /\ DifferOnlyInMode(i, j)
          /\ tb.archive[i].Typeflag = TypeReg /\ tb.archive[j].Typeflag = TypeReg
          /\ tb.archive[i].Content = tb.archive[j].Content /\ tb.archive[i].Content # ""

FailedCall(i) == ~tb.log[i].ok

\* C3: once a directory fetch, a digest derivation or a blob read has failed,
\* no header is written, no directory is fetched, no digest is derived and no
\* blob is read.
C3_NothingAfterFailure ==
    /\ ArchiveAligned
    /\ \A i \in DOMAIN tb.log :
          (FailedCall(i) /\ tb.log[i].op \in {"getDirectory", "NewDerivedDigest", "IntoWriter"}) =>
             \A k \in (i + 1)..Len(tb.log) :
                tb.log[k].op \notin {"WriteHeader", "getDirectory", "NewDerivedDigest", "IntoWriter"}

\* C3 witness: the fetch of the first of two child directories failed, below
\* a root that has a second child directory: only the first child's header is
\* in the archive.
C3_Witness ==
    /\ handler = "directory"
    /\ Len(tb.directory.Directories) = 2
    /\ tb.log # <<>>
    /\ tb.log[Len(tb.log)].op = "getDirectory" /\ ~tb.log[Len(tb.log)].ok
    /\ Len(tb.log[Len(tb.log)].name) = 2
    /\ tb.log[Len(tb.log)].name[1] = "a"
    /\ tb.pc = "aborted"

CloseCalls == {"tarWriter.Close", "gzipWriter.Close"}

\* C4: the writers are closed only after a traversal without error, tar
\* first; after any failed call the handler has panicked, and no call (so no
\* Close) follows the failure; the handler returns normally only after both
\* Close calls succeeded.
C4_FinalizedOnlyOnSuccess ==
    /\ \A i \in DOMAIN tb.log :
          /\ FailedCall(i) => (i = Len(tb.log) /\ tb.pc = "aborted")
          /\ tb.log[i].op = "tarWriter.Close" =>
                \A k \in 1..(i - 1) : tb.log[k].ok /\ tb.log[k].op \notin CloseCalls
          /\ tb.log[i].op = "gzipWriter.Close" =>
                (i > 1 /\ tb.log[i - 1].op = "tarWriter.Close" /\ tb.log[i - 1].ok)
    /\ tb.pc = "aborted" => (tb.log # <<>> /\ FailedCall(Len(tb.log)))
    /\ tb.pc = "returned" =>
          /\ Len(tb.log) >= 2
          /\ tb.log[Len(tb.log)].op = "gzipWriter.Close"
          /\ \A i \in DOMAIN tb.log : tb.log[i].ok

\* C4 witness: the handler has panicked after a blob read failed with
\* entries already written, and no writer was closed.
C4_Witness ==
    /\ tb.pc = "aborted"
    /\ Len(tb.archive) >= 2
    /\ tb.log[Len(tb.log)].op = "IntoWriter"
    /\ \A i \in DOMAIN tb.log : tb.log[i].op \notin CloseCalls

---------------------------------------------------------------------------
(* Properties of the path resolution of handleTree. *)

SubdirectoryNotFound == ErrorResponse(404, "Subdirectory in tree not found")

InconsistentBundle == ErrorResponse(400, "Failed to find child node in tree")

\* GetTree answered and the handler went on to resolve the path.
TreeFetched ==
    /\ handler = "tree"
    /\ \/ tree.pc = "resolve"
       \/ tree.pc = "done" /\ response.message # "GetTree: err.Error()"

\* The DirectoryNodes of a directory with a given name, as indices.
NamedNodes(directory, name) ==
    {i \in DOMAIN directory.Directories : directory.Directories[i].Name = name}

\* The descendants of the Tree whose serialized form has the hash and the
\* size of a partial reference.
DescendantsFor(ref) ==
    {c \in Range(casTree.Children) :
        \E h \in DOMAIN cas :
           cas[h] = c /\ h = ref.Hash /\ ref.SizeBytes = DirRef(h).SizeBytes}

\* The node the next component names in the directory reached so far.
NextNamed == NamedNodes(tree.treeInfo.Directory, Head(tree.components))

NextRef == tree.treeInfo.Directory.Directories[Min(NextNamed)].Digest

\* Once the handler has answered with an error, nothing is produced.
ErrorIsFinal ==
    (handler = "tree" /\ response.kind = "error") =>
        (response' = response /\ tb' = tb /\ tb.pc = "idle" /\ tree' = tree)

\* C5: when the next component names a DirectoryNode whose derived digest is
\* not in the index of the Tree's children, the handler answers "Failed to
\* find child node in tree", which is not the answer "Subdirectory in tree not
\* found", and neither a page nor an archive is produced.
C5_MissingChildIsInconsistentBundle ==
    [][/\ (/\ handler = "tree" /\ tree.pc = "resolve" /\ tree.components # <<>>
           /\ NextNamed # {}
           /\ NextRef.Hash # "" /\ NextRef.SizeBytes >= 0
           /\ DescendantsFor(NextRef) = {})
          => /\ response' = InconsistentBundle
             /\ response' # SubdirectoryNotFound
             /\ tree'.pc = "done"
             /\ tb' = tb /\ tb.pc = "idle"
       /\ ErrorIsFinal]_vars

\* C5 witness: the second component named a node whose directory the Tree
\* lacks.
C5_Witness ==
    /\ response = InconsistentBundle
    /\ Len(tree.lookups) = 2
    /\ tree.pc = "done" /\ tb.pc = "idle"

\* C6: when the next component, the first or a later one, names no
\* DirectoryNode of the directory reached so far, the handler answers
\* "Subdirectory in tree not found" and produces nothing else: no lookup in
\* the index, no page, no archive, no further component.
C6_UnknownNameIsSubdirectoryNotFound ==
    [][/\ (/\ handler = "tree" /\ tree.pc = "resolve" /\ tree.components # <<>>
           /\ NextNamed = {})
          => /\ response' = SubdirectoryNotFound
             /\ tree'.lookups = tree.lookups
             /\ tree'.components = tree.components
             /\ tree'.pc = "done"
             /\ tb' = tb /\ tb.pc = "idle"
       /\ (handler = "tree" /\ response.kind = "error") => UNCHANGED vars]_vars

\* C6 witness: the second component matched no node of the directory the
\* first component led to, which has a node of another name.
C6_Witness ==
    /\ response = SubdirectoryNotFound
    /\ Len(tree.lookups) = 1
    /\ tree.treeInfo.HasParentDirectory
    /\ tree.treeInfo.Directory.Directories # <<>>

OnlySlashes(s) == \A i \in DOMAIN s : s[i] = "/"

\* C7: for the empty subdirectory and for one made of slashes only, the
\* handler answers with the Tree's root as it is and the Tree's own digest,
\* without a lookup in the index and without HasParentDirectory.
C7_EmptyPathIsRoot ==
    (TreeFetched /\ OnlySlashes(req.subdirectory)) =>
        /\ tree.treeInfo.Directory = casTree.Root
        /\ tree.directoryDigest = req.digest
        /\ ~tree.treeInfo.HasParentDirectory
        /\ tree.lookups = <<>>
        /\ response.kind \in {"none", "page", "tarball"}
        /\ tree.pc = "done" => response.kind \in {"page", "tarball"}
        /\ response.kind = "page" =>
              /\ response.page.Directory = casTree.Root
              /\ ~response.page.HasParentDirectory
        /\ response.kind = "tarball" =>
              /\ tb.directory = casTree.Root
              /\ tb.digest = req.digest

\* C7 witness: the page of a non-empty root for the subdirectory "//", in a
\* Tree that has children.
C7_Witness ==
    /\ handler = "tree"
    /\ req.subdirectory = <<"/", "/">>
    /\ response.kind = "page"
    /\ casTree.Root.Directories # <<>>
    /\ casTree.Children # <<>>

\* Paths c1/.../cn as sequences of components, a component as the sequence
\* of its characters.
ComponentChars == PathChars \ {"/"}

PathsOfComponents ==
    SeqUpTo(UNION {[1..k -> ComponentChars] : k \in 1..MaxPathLen}, MaxPathLen)

RECURSIVE Concat(_)
Concat(chars) == IF chars = <<>> THEN "" ELSE Head(chars) \o Concat(Tail(chars))

RECURSIVE Slashed(_)
Slashed(components) ==
    IF components = <<>> THEN <<>>
    ELSE IF Len(components) = 1 THEN Head(components)
    ELSE Head(components) \o <<"/">> \o Slashed(Tail(components))

NotReached == [ok |-> FALSE, ref |-> [Hash |-> "", SizeBytes |-> 0], directory |-> EmptyDirectory]

\* The directory a named node of directory d leads to in the Tree.
Below(d, name) ==
    LET named == NamedNodes(d, name)
        ref == d.Directories[Min(named)].Digest
    IN  IF named = {} THEN NotReached
        ELSE IF DescendantsFor(ref) = {} THEN NotReached
        ELSE [ok |-> TRUE, ref |-> ref, directory |-> CHOOSE c \in DescendantsFor(ref) : TRUE]

RECURSIVE Reached(_, _)
Reached(at, components) ==
    IF components = <<>> \/ ~at.ok THEN at
    ELSE Reached(Below(at.directory, Concat(Head(components))), Tail(components))

\* C8: for a path c1/.../cn whose components each name a DirectoryNode of the
\* directory reached so far, with every referenced directory among the
\* Tree's children, the handler answers with the digest derived from the
\* last node's reference and the child whose serialized form has that digest.
C8_ResolvesToReferencedChild ==
    (TreeFetched /\ tree.pc = "done") =>
        \A components \in PathsOfComponents :
           LET end == Reached([ok |-> TRUE, ref |-> [Hash |-> "", SizeBytes |-> 0],
                               directory |-> casTree.Root], components)
               D == [Instance |-> req.digest.Instance, Hash |-> end.ref.Hash,
                     SizeBytes |-> end.ref.SizeBytes]
           IN  (components # <<>> /\ Slashed(components) = req.subdirectory /\ end.ok) =>
                  /\ response.kind \in {"page", "tarball"}
                  /\ tree.directoryDigest = D
                  /\ tree.treeInfo.Directory = end.directory
                  /\ cas[D.Hash] = end.directory
                  /\ response.kind = "page" =>
                        /\ response.page.Directory = end.directory
                        /\ response.page.HasParentDirectory
                  /\ response.kind = "tarball" =>
                        /\ tb.digest = D
                        /\ tb.directory = end.directory

\* C8 witness: "a/a" resolved through two children of the Tree to the leaf.
C8_Witness ==
    /\ handler = "tree"
    /\ req.subdirectory = <<"a", "/", "a">>
    /\ response.kind = "tarball"
    /\ Len(tree.lookups) = 2
    /\ tb.directory = TreeLeaf
    /\ tb.digest.Hash = "D2"

---------------------------------------------------------------------------
(* Properties of the archive's order and coverage. *)

\* What an archive entry says about the node it was written for: directory,
\* symlink or file, the path, and a symlink's target.
Shape(kind, name, target) == [kind |-> kind, name |-> name, target |-> target]

ShapeOf(hdr) ==
    Shape(IF hdr.Typeflag \in {TypeReg, TypeLink} THEN "file" ELSE hdr.Typeflag,
          hdr.Name,
          IF hdr.Typeflag = TypeSymlink THEN hdr.Linkname ELSE <<>>)

ArchiveShapes == [i \in DOMAIN tb.archive |-> ShapeOf(tb.archive[i])]

\* The Directory the export can obtain for a reference: the blob of the
\* storage, or the child bundled in the Tree.
Obtainable(ref) ==
    /\ ref.Hash \in DOMAIN cas
    /\ ref = DirRef(ref.Hash)
    /\ tb.fetcher = "tree" => cas[ref.Hash] \in Range(casTree.Children)

\* The nodes below a directory in pre-order, from its i-th DirectoryNode on:
\* each child directory followed by its subtree, in source order, then the
\* symlinks in source order, then the files in source order. Directories
\* deeper than MaxDepth are not entered.
RECURSIVE PreOrderFrom(_, _, _)
PreOrderFrom(directory, path, i) ==
    IF i <= Len(directory.Directories)
    THEN LET node == directory.Directories[i]
             p == Append(path, node.Name)
         IN  <<Shape(TypeDir, p, <<>>)>>
             \o (IF Len(p) < MaxDepth /\ Obtainable(node.Digest)
                 THEN PreOrderFrom(cas[node.Digest.Hash], p, 1) ELSE <<>>)
             \o PreOrderFrom(directory, path, i + 1)
    ELSE [j \in DOMAIN directory.Symlinks |->
             Shape(TypeSymlink, Append(path, directory.Symlinks[j].Name),
                   <<directory.Symlinks[j].Target>>)]
         \o [j \in DOMAIN directory.Files |->
                Shape("file", Append(path, directory.Files[j].Name), <<>>)]

IsPrefix(s, t) == Len(s) <= Len(t) /\ SubSeq(t, 1, Len(s)) = s

\* C9: at every moment of an archive generation, the directory entry for a
\* path P precedes every entry below P, and the entries written so far are
\* the beginning of the pre-order sequence of the root's nodes (per directory:
\* each child directory with its whole subtree, in source order, then the
\* symlinks, then the files, in source order), a symlink entry carrying the
\* SymlinkNode's target string as it is.
C9_DeterministicPreOrder ==
    tb.pc # "idle" =>
        /\ \A i \in DOMAIN tb.archive :
              \A n \in 1..(Len(tb.archive[i].Name) - 1) :
                 \E j \in 1..(i - 1) :
                    /\ tb.archive[j].Typeflag = TypeDir
                    /\ tb.archive[j].Name = SubSeq(tb.archive[i].Name, 1, n)
        /\ IsPrefix(ArchiveShapes, PreOrderFrom(tb.directory, <<>>, 1))
        /\ \A i \in DOMAIN tb.archive :
              tb.archive[i].Typeflag = TypeSymlink =>
                 tb.archive[i].Linkname \in {<<target>> : target \in SymlinkTargets}

\* C9 witness: the entry of directory "a", then the symlink "a/s" with target
\* "../z", then the file "a/f", and only then the entry of the sibling "b".
C9_Witness ==
    /\ tb.pc = "returned"
    /\ Len(tb.archive) >= 4
    /\ tb.archive[1].Typeflag = TypeDir /\ tb.archive[1].Name = <<"a">>
    /\ tb.archive[2].Typeflag = TypeSymlink /\ tb.archive[2].Name = <<"a", "s">>
    /\ tb.archive[2].Linkname = <<"../z">>
    /\ tb.archive[3].Typeflag = TypeReg /\ tb.archive[3].Name = <<"a", "f">>
    /\ tb.archive[4].Typeflag = TypeDir /\ tb.archive[4].Name = <<"b">>

Count(s, x) == Cardinality({i \in DOMAIN s : s[i] = x})

\* C10: in a completed archive generation no entry is written for the root,
\* every entry is a directory, symlink, regular-file or hardlink entry, and
\* for every kind and path the archive holds as many entries as the root's
\* subtree holds node occurrences of that kind at that path: one entry per
\* occurrence and no other entry.
C10_OneEntryPerNodeOccurrence ==
    tb.pc = "returned" =>
        LET nodes == PreOrderFrom(tb.directory, <<>>, 1)
        IN  /\ \A i \in DOMAIN tb.archive :
                  /\ tb.archive[i].Name # <<>>
                  /\ tb.archive[i].Typeflag \in {TypeDir, TypeSymlink, TypeReg, TypeLink}
            /\ \A x \in Range(nodes) \cup Range(ArchiveShapes) :
                  Count(ArchiveShapes, x) = Count(nodes, x)
            /\ \A i \in DOMAIN nodes :
                  nodes[i].kind = TypeDir =>
                     \E d \in DOMAIN tb.log :
                        /\ tb.log[d].op = "getDirectory" /\ tb.log[d].ok
                        /\ tb.log[d].name = nodes[i].name

\* C10 witness: a completed archive with a directory entry, a symlink entry
\* and a regular file below it, and a hardlink entry at the top level.
C10_Witness ==
    /\ tb.pc = "returned"
    /\ \E i, j, k, l \in DOMAIN tb.archive :
          /\ tb.archive[i].Typeflag = TypeDir
          /\ tb.archive[j].Typeflag = TypeSymlink /\ Len(tb.archive[j].Name) = 2
          /\ tb.archive[k].Typeflag = TypeReg /\ Len(tb.archive[k].Name) = 2
          /\ tb.archive[l].Typeflag = TypeLink /\ Len(tb.archive[l].Name) = 1

---------------------------------------------------------------------------
(* Properties of the export's failures. *)

\* The calls made for the node whose digest derivation is tb.log[i], before
\* that derivation: the header writes for its path that directly precede it.
OwnEarlier(i) ==
    {j \in 1..(i - 1) :
        \A k \in j..(i - 1) :
           tb.log[k].name = tb.log[i].name /\ tb.log[k].op = "WriteHeader"}

BackendCalls == {"getDirectory", "IntoWriter"}

\* C11, as stated: when the derivation of a DirectoryNode's or FileNode's
\* child digest fails, no archive entry has been written for that node and no
\* fetch or blob read is issued for it.
C11_AsStated ==
    \A i \in DOMAIN tb.log :
       (tb.log[i].op = "NewDerivedDigest" /\ ~tb.log[i].ok) =>
          /\ \A j \in OwnEarlier(i) : ~tb.log[j].ok
          /\ \A k \in (i + 1)..Len(tb.log) : tb.log[k].op \notin BackendCalls

\* A write to the archive's destination: a header, or the copy of a file's
\* content into the archive.
DestinationWrites == {"WriteHeader", "IntoWriter"}

\* C14: once a header write or a content copy has failed, the export is on
\* its way out: no frame of the traversal is left, the handler is aborted and
\* neither closed nor completed, and the failed write is the last call made,
\* so no directory fetch and no blob read follows it.
C14_FailedWriteAborts ==
    \A i \in DOMAIN tb.log :
       (tb.log[i].op \in DestinationWrites /\ ~tb.log[i].ok) =>
          /\ tb.pc = "aborted"
          /\ tb.stack = <<>>
          /\ \A k \in (i + 1)..Len(tb.log) :
                tb.log[k].op \notin BackendCalls \cup DestinationWrites \cup CloseCalls

\* C14 witness: the header write for the second child directory fails after
\* the first one was fetched and file content was read; the second child and
\* its subtree are never fetched.
C14_Witness ==
    /\ tb.pc = "aborted"
    /\ Len(tb.log) >= 3
    /\ tb.log[Len(tb.log)].op = "WriteHeader" /\ ~tb.log[Len(tb.log)].ok
    /\ \E j, k \in DOMAIN tb.log :
          /\ tb.log[j].op = "getDirectory" /\ tb.log[j].ok
          /\ tb.log[k].op = "IntoWriter" /\ tb.log[k].ok
    /\ tb.log[Len(tb.log)].name = <<DirectoryNames[2]>>

---------------------------------------------------------------------------
(* Properties of the directory fetches. *)

\* The DirectoryNode occurrences below a directory of the storage, in the
\* order of the traversal, each with its path and the hash it refers to, from
\* the directory's i-th DirectoryNode on.
RECURSIVE OccurrencesFrom(_, _, _)
OccurrencesFrom(directory, path, i) ==
    IF i > Len(directory.Directories) THEN <<>>
    ELSE LET node == directory.Directories[i]
             p == Append(path, node.Name)
         IN  <<[name |-> p, hash |-> node.Digest.Hash]>>
             \o (IF Len(p) < MaxDepth /\ Obtainable(node.Digest)
                 THEN OccurrencesFrom(cas[node.Digest.Hash], p, 1) ELSE <<>>)
             \o OccurrencesFrom(directory, path, i + 1)

\* The directory fetches issued, in order.
Fetches == SelectSeq(tb.log, LAMBDA e : e.op = "getDirectory")

\* The archive's entries below path p.
EntriesBelow(p) ==
    SelectSeq(ArchiveShapes,
              LAMBDA x : Len(x.name) > Len(p) /\ SubSeq(x.name, 1, Len(p)) = p)

\* C15: a completed archive generation over the storage has issued one
\* directory fetch for every DirectoryNode occurrence below the root, in the
\* order of the traversal, so a digest referenced from k places was fetched k
\* times, and below each occurrence's path the archive holds the whole
\* subtree of the fetched Directory.
C15_OneFetchPerOccurrence ==
    (tb.pc = "returned" /\ tb.fetcher = "remote") =>
        /\ [i \in DOMAIN Fetches |-> [name |-> Fetches[i].name, hash |-> Fetches[i].digest.Hash]]
              = OccurrencesFrom(tb.directory, <<>>, 1)
        /\ \A i \in DOMAIN Fetches :
              /\ Fetches[i].ok
              /\ EntriesBelow(Fetches[i].name)
                    = PreOrderFrom(cas[Fetches[i].digest.Hash], Fetches[i].name, 1)

\* C15 witness: a completed archive for which the same digest was fetched
\* for two sibling DirectoryNodes, each with a file below it.
C15_Witness ==
    /\ tb.pc = "returned" /\ tb.fetcher = "remote"
    /\ \E i, j \in DOMAIN Fetches :
          /\ i < j
          /\ Fetches[i].digest = Fetches[j].digest
          /\ Fetches[i].name # Fetches[j].name
          /\ Len(EntriesBelow(Fetches[i].name)) > 0
          /\ Len(EntriesBelow(Fetches[j].name)) > 0

\* The calls made for the child directory whose fetch is tb.log[i], before
\* the fetch: the header write and the digest derivation for its path that
\* directly precede it.
OwnBeforeFetch(i) ==
    {j \in 1..(i - 1) :
        \A k \in j..(i - 1) :
           /\ tb.log[k].name = tb.log[i].name
           /\ tb.log[k].op \in {"WriteHeader", "NewDerivedDigest"}}

\* C16, as stated: the directory entry of a child is written only once the
\* child's digest is resolved and its Directory fetched, so when the fetch of
\* a child directory fails, no directory entry was written for that child.
C16_AsStated ==
    \A i \in DOMAIN tb.log :
       (tb.log[i].op = "getDirectory" /\ ~tb.log[i].ok) =>
          \A j \in OwnBeforeFetch(i) : ~(tb.log[j].op = "WriteHeader" /\ tb.log[j].ok)

---------------------------------------------------------------------------
(* Properties of the slashes of a path. *)

\* The positions of a path that are not a leading, trailing or repeated
\* slash: every other character, and a slash with a component before it and
\* one after it.
Kept(s) ==
    {i \in DOMAIN s :
        \/ s[i] # "/"
        \/ /\ i > 1 /\ s[i - 1] # "/"
           /\ \E j \in (i + 1)..Len(s) : s[j] # "/"}

\* The path without its leading, trailing and repeated slashes.
Canon(s) ==
    [n \in 1..Cardinality(Kept(s)) |->
        s[CHOOSE i \in Kept(s) : Cardinality({j \in Kept(s) : j < i}) = n - 1]]

\* What the finished handler resolved the request's path to.
Resolved ==
    IF response.kind = "error"
    THEN [error |-> response, digest |-> NoDigest, directory |-> EmptyDirectory]
    ELSE [error |-> NoResponse, digest |-> tree.directoryDigest,
          directory |-> tree.treeInfo.Directory]

\* C17: the outcome of a finished path resolution (the error, or the digest
\* and the Directory) is the outcome of resolving, against the same Tree,
\* any path that differs from the request's only in leading, trailing or
\* repeated slashes.
C17_SlashesIgnored ==
    (TreeFetched /\ tree.pc = "done") =>
        \A s \in SeqUpTo(PathChars, MaxPathLen) :
           Canon(s) = Canon(req.subdirectory) =>
              ResolveFrom(StartTree(req.digest, casTree, s)) = Resolved

\* C17 witness: "/a/" resolved to a child of the Tree's root, as "a" is.
C17_Witness ==
    /\ TreeFetched /\ tree.pc = "done"
    /\ req.subdirectory = <<"/", "a", "/">>
    /\ Canon(req.subdirectory) = <<"a">>
    /\ response.kind = "page"
    /\ Len(tree.lookups) = 1
    /\ tree.treeInfo.Directory # casTree.Root

---------------------------------------------------------------------------
(* Properties of the resolution of a log. *)

\* The call resolves a log reference whose digest records size zero.
ZeroSizeLog ==
    /\ handler = "action"
    /\ logCall.logDigest # <<>>
    /\ logCall.logDigest[1].SizeBytes = 0

\* C12, as stated: for a log reference of size zero no read is issued to the
\* blob storage and the log is reported absent, a nil logInfo.
C12_AsStated ==
    ZeroSizeLog =>
        /\ logCall.reads = <<>>
        /\ logCall.pc = "done" => logCall.logInfo = <<>>

\* C12, amended: for a log reference of size zero no read is issued to the
\* blob storage; without an inline body the log is reported absent, a nil
\* logInfo; with an inline body the logInfo returned, if any, is that of the
\* inline body, neither NotFound nor TooLarge.
C12_ZeroSizeLogIsNotRead ==
    ZeroSizeLog =>
        /\ logCall.reads = <<>>
        /\ logCall.pc = "done" =>
              /\ logCall.rawLogBody = "" => logCall.logInfo = <<>>
              /\ logCall.logInfo # <<>> =>
                    /\ ~logCall.err
                    /\ Len(logCall.logInfo) = 1
                    /\ ~logCall.logInfo[1].TooLarge /\ ~logCall.logInfo[1].NotFound
                    /\ logCall.logInfo[1].HTML = <<"html", logCall.rawLogBody>>
                    /\ logCall.logInfo[1].Name = logCall.name

\* C12 witness: getLogInfoForDigest has returned for a well-formed digest of
\* size zero without inline body.
C12_Witness ==
    /\ ZeroSizeLog
    /\ logCall.pc = "done"
    /\ logCall.rawLogBody = ""
    /\ logCall.digest = [Instance |-> InstanceName, Hash |-> "L", SizeBytes |-> 0]
    /\ logCall.logInfo = <<>> /\ ~logCall.err

---------------------------------------------------------------------------
(* Properties of handleFile. *)

\* The positions of the call's log with a call of the given kind.
FileCalls(op) == {i \in DOMAIN fileCall.log : fileCall.log[i].op = op}

\* The handler's own writes to the response: the file's headers and bytes.
FileOutput == FileCalls("Header.Set") \cup FileCalls("Write")

\* C20: handleFile sets Content-Length and Content-Type and writes bytes of
\* the file only after a first Read that returned no error or io.EOF; when
\* the first Read returns another error the response is the http.Error and
\* neither of the two headers nor a byte of the file is ever written; and a
\* reader that was opened is closed when the handler is done.
C20_HeadersAfterFirstRead ==
    handler = "file" =>
        /\ \A i \in FileOutput :
              \E r \in FileCalls("Read") :
                 /\ r < i
                 /\ \A q \in FileCalls("Read") : r <= q
                 /\ fileCall.log[r].value \in {"nil", "EOF"}
        /\ \A r \in FileCalls("Read") :
              ((\A q \in FileCalls("Read") : r <= q) /\ fileCall.log[r].value = "error") =>
                 /\ FileOutput = {}
                 /\ FileCalls("http.Error") = {r + 1}
                 /\ Cardinality(FileCalls("Read")) = 1
        /\ FileCalls("Close") # {} => FileCalls("ToReader") # {}
        /\ fileCall.pc = "done" =>
              Cardinality(FileCalls("Close")) = Cardinality(FileCalls("ToReader"))

\* C20 witness: the first Read failed after delivering bytes; the handler
\* answered with the error and closed the reader.
C20_Witness ==
    /\ handler = "file" /\ fileCall.pc = "done"
    /\ fileCall.first = "text" /\ fileCall.firstErr = "error"
    /\ fileCall.closed
    /\ FileCalls("http.Error") # {}

---------------------------------------------------------------------------
(* Properties of concurrent archive exports. *)

\* The successful WriteHeader calls of call c, in order.
HeaderCallsOf(c) == SelectSeq(calls[c].log, LAMBDA e : e.op = "WriteHeader" /\ e.ok)

\* C13: in each of the concurrent generateTarball calls, whatever the other
\* call has written, a FileNode is a regular-file entry when no earlier entry
\* of the same archive has its dedup key, and otherwise a hardlink entry
\* whose target is the path of the first such entry, a regular-file entry of
\* that same archive.
C13_DedupTablePerCall ==
    handler = "concurrent" =>
        \A c \in Callers :
           LET archive == calls[c].archive
               file(i) == HeaderCallsOf(c)[i].file
           IN  /\ Len(HeaderCallsOf(c)) = Len(archive)
               /\ \A i \in DOMAIN archive :
                     file(i) # NoFile =>
                        LET earlier == {j \in 1..(i - 1) :
                                           /\ file(j) # NoFile
                                           /\ DedupKeyOf(file(j)) = DedupKeyOf(file(i))}
                        IN  IF earlier = {}
                            THEN archive[i].Typeflag = TypeReg
                            ELSE /\ archive[i].Typeflag = TypeLink
                                 /\ archive[Min(earlier)].Typeflag = TypeReg
                                 /\ archive[i].Linkname = archive[Min(earlier)].Name

\* C13 witness: the second call has written a regular-file entry for a file
\* whose path the first call's map already holds, and the first call has
\* written a hardlink.
C13_Witness ==
    /\ handler = "concurrent"
    /\ DOMAIN maps = Callers
    /\ calls[2].pc = "traverse"
    /\ calls[2].stack[Len(calls[2].stack)].at = "fileCopy"
    /\ calls[2].archive[Len(calls[2].archive)].Typeflag = TypeReg
    /\ calls[2].archive[Len(calls[2].archive)].Name \in Range(maps[1])
    /\ maps[2] = <<>>
    /\ \E i \in DOMAIN calls[1].archive : calls[1].archive[i].Typeflag = TypeLink

---------------------------------------------------------------------------
(* Properties of the export's termination. *)

\* The hashes the DirectoryNodes of the stored directory h refer to, as far
\* as the storage holds them.
ReferredBy(h) ==
    {cas[h].Directories[i].Digest.Hash : i \in
        {j \in DOMAIN cas[h].Directories :
            /\ cas[h].Directories[j].Digest.Hash \in DOMAIN cas
            /\ cas[h].Directories[j].Digest.SizeBytes = 1}}

RECURSIVE Closure(_, _)
Closure(S, n) ==
    IF n = 0 THEN S ELSE Closure(S \cup UNION {ReferredBy(h) : h \in S}, n - 1)

\* The stored directories below h, at any depth.
ReachableBelow(h) == Closure(ReferredBy(h), Cardinality(DOMAIN cas))

\* The directory h refers to itself, directly or through others.
OnCycle(h) == h \in ReachableBelow(h)

\* The graph below the request's root has no cycle.
Acyclic == \A h \in {req.digest.Hash} \cup ReachableBelow(req.digest.Hash) : ~OnCycle(h)

\* The handler is done: it answered without archive, or generateTarball
\* returned or aborted.
Finished ==
    \/ response.kind \in {"error", "page"}
    \/ tb.pc \in {"returned", "aborted"}

\* C19: when the graph below the root is finite and acyclic, the export ends:
\* generateTarball returns, and then no call has failed and every node
\* occurrence below the root has its entry, or it aborts, and then the last
\* call made is the first and only one that failed.
C19_AcyclicTerminates ==
    /\ (handler = "directory" /\ Acyclic) => <>Finished
    /\ [](Acyclic =>
            /\ tb.pc = "returned" =>
                  /\ \A i \in DOMAIN tb.log : tb.log[i].ok
                  /\ Len(tb.archive) = Len(PreOrderFrom(tb.directory, <<>>, 1))
            /\ tb.pc = "aborted" =>
                  /\ tb.log # <<>>
                  /\ \A i \in DOMAIN tb.log : tb.log[i].ok <=> i < Len(tb.log))

\* C19 witness: the export of an acyclic graph with two levels has returned.
C19_Witness ==
    /\ handler = "directory" /\ Acyclic
    /\ tb.pc = "returned"
    /\ \E i \in DOMAIN tb.archive : Len(tb.archive[i].Name) = 2

\* The fetch for some DirectoryNode has returned a Directory that refers to
\* its own digest, directly or through others.
CycleFetched ==
    /\ handler = "directory"
    /\ \E i \in DOMAIN tb.log :
          /\ tb.log[i].op = "getDirectory" /\ tb.log[i].ok
          /\ OnCycle(tb.log[i].digest.Hash)

\* No fetch, read, write or close has failed.
NoFetchOrWriteFailed ==
    \A i \in DOMAIN tb.log : tb.log[i].op # "NewDerivedDigest" => tb.log[i].ok

\* No call has failed, the derivations of the child digests included.
NothingFailed == \A i \in DOMAIN tb.log : tb.log[i].ok

\* The export has recursed as deep as the model follows it: a directory entry
\* stands at a path of MaxDepth names.
AtDepthBound ==
    \E i \in DOMAIN tb.archive :
       tb.archive[i].Typeflag = TypeDir /\ Len(tb.archive[i].Name) = MaxDepth

\* C18, as stated: once a cyclic Directory was fetched, and as long as no
\* fetch and no write fails, the export neither completes nor fails.
C18_AsStated ==
    (CycleFetched /\ NoFetchOrWriteFailed) => (tb.pc = "traverse" /\ tb.stack # <<>>)

\* C18, amended: once a cyclic Directory was fetched, and as long as no
\* fetch, read, write or derivation of a child digest fails, the export
\* neither completes nor fails, and it goes on recursing: unless a call
\* fails, directory entries appear at paths as long as the model follows.
C18_CycleNeverEnds ==
    /\ []((CycleFetched /\ NothingFailed) => (tb.pc = "traverse" /\ tb.stack # <<>>))
    /\ CycleFetched ~> (~NothingFailed \/ AtDepthBound)

\* C18 witness: a Directory that refers to itself through another one was
\* fetched, nothing has failed, and the export is MaxDepth frames deep.
C18_Witness ==
    /\ CycleFetched /\ NothingFailed
    /\ OnCycle("D2") /\ "D2" \notin ReferredBy("D2")
    /\ \E i \in DOMAIN tb.log :
          tb.log[i].op = "getDirectory" /\ tb.log[i].ok /\ tb.log[i].digest.Hash = "D2"
    /\ Len(tb.stack) = MaxDepth
    /\ AtDepthBound

=============================================================================
